---- MODULE Spec2Model ----
(***************************************************************************)
(* A model of src/data_process/utils.py: the sandbox runner evaluate_code  *)
(* (signal-based deadline around exec of a code string and its tests), the *)
(* process-wide cached completion client (get_client / model_prompting),   *)
(* and the text scorer (normalize_answer, f1_score).                       *)
(*                                                                         *)
(* Strings are sequences of one-character strings.  A code string or test  *)
(* string is abstracted by the statements it executes (see Stmt).          *)
(***************************************************************************)
EXTENDS Integers, Sequences, FiniteSets, Bags, TLC

VARIABLES
    \* ---- evaluate_code: one call in progress, and the process's signal state
    pc,             \* position of the interpreter (a line of evaluate_code, or the caller)
    generated_code, \* argument: the statements of the code string
    test_cases,     \* argument: the list of test strings, one statement each
    timeout,        \* argument: seconds
    main_thread,    \* whether the caller runs on the main thread
    alarm,          \* seconds until SIGALRM is delivered; 0: no alarm pending
    sig_handler,    \* the installed SIGALRM handler: "default" or "timeout_handler"
    local_vars,     \* the dict local_vars: a set of bindings
    ip,             \* index of the statement of generated_code being executed
    ti,             \* index of the test being executed (the for loop's cursor)
    loop_phase,     \* iteration parity of a running "while True" loop
    exc,            \* the exception being handled or propagating; "none"
    retval,         \* the value a return statement has set; "none"
    outcome,        \* how the last call ended: "none", "True", "False" or the escaped exception
    fired,          \* the deadline fired during the call
    started,        \* the units exec has started, in order: 0 the code, i test i
    ok_units,       \* the units that finished without raising
    caller_hit,     \* a SIGALRM was delivered while the caller's own code ran
    \* ---- get_client / model_prompting
    cached_client,  \* the global _cached_client: {} (None) or {the client's configuration}
    client_args,    \* the connection parameters of the latest call
    client_used,    \* the configuration of the client that call used
    \* ---- normalize_answer / f1_score
    n_in,           \* the string given to normalize_answer
    n_out,          \* normalize_answer(n_in), once computed
    n_out2,         \* normalize_answer(n_out), once computed
    n_phase,        \* 0: nothing computed, 1: n_out, 2: n_out2
    prediction,     \* f1_score's first argument
    ground_truth,   \* f1_score's second argument
    f1_fwd,         \* f1_score(prediction, ground_truth), once computed; <<>> before
    f1_swp          \* f1_score(ground_truth, prediction), once computed; <<>> before

evalVars == <<pc, generated_code, test_cases, timeout, main_thread, alarm, sig_handler,
              local_vars, ip, ti, loop_phase, exc, retval, outcome, fired, started,
              ok_units, caller_hit>>
clientVars == <<cached_client, client_args, client_used>>
normVars == <<n_in, n_out, n_out2, n_phase>>
f1Vars == <<prediction, ground_truth, f1_fwd, f1_swp>>
vars == <<evalVars, clientVars, normVars, f1Vars>>

(***************************************************************************)
(* Bounds of the model.                                                    *)
(***************************************************************************)
MaxTests == 2        \* longest test_cases list
MaxTimeout == 2      \* largest timeout passed, in seconds
MaxPieces == 3       \* normalize_answer's inputs: concatenations of up to MaxPieces pieces
MaxF1Pieces == 2     \* f1_score's inputs: concatenations of up to MaxF1Pieces pieces

(***************************************************************************)
(* The sandbox runner.                                                     *)
(***************************************************************************)
\* A statement of a code string or test string, by what executing it does:
\*   def     binds `name` to a function whose body refers to the global names `refs`
\*   assign  binds `name` to a value computed from the names `refs`
\*   assert  evaluates `name` (calling it when it is a function); the assertion's
\*           condition is `holds` when every name resolves
\*   raise   raises the exception `exn`
\*   loop    while True: ...; catch "none": plain; "once": inside try/except Exception: pass;
\*           "always": the try/except is inside the loop
Stmt(op, name, refs, exn, catch, holds) ==
    [op |-> op, name |-> name, refs |-> refs, exn |-> exn, catch |-> catch, holds |-> holds]

Def(name, refs) == Stmt("def", name, refs, "none", "none", TRUE)
Assign(name, refs) == Stmt("assign", name, refs, "none", "none", TRUE)
AssertStmt(name, holds) == Stmt("assert", name, {}, "none", "none", holds)
RaiseStmt(exn) == Stmt("raise", "", {}, exn, "none", TRUE)
Loop(catch) == Stmt("loop", "", {}, "none", catch, TRUE)

\* Exceptions that `except Exception` catches, and those it does not.
ExceptionClasses == {"AssertionError", "ValueError", "NameError", "TimeoutError"}
BaseOnlyClasses == {"SystemExit", "KeyboardInterrupt"}

CodeSamples ==
    { <<Def("add", {})>>,                          \* def add(a,b): return a+b
      <<Def("f", {"f"})>>,                         \* a function calling itself
      <<Def("g", {}), Def("h", {"g"})>>,           \* a function calling another
      <<Assign("x", {}), Assign("y", {"x"})>>,     \* x = 3; y = x + 1
      <<RaiseStmt("ValueError")>>,
      <<RaiseStmt("SystemExit")>>,
      <<Loop("none")>>,                            \* while True: pass
      <<Def("add", {}), Loop("once")>>,            \* try: while True: ... except Exception: pass
      <<Loop("always")>> }                         \* while True: try: ... except Exception: pass

TestSamples ==
    { AssertStmt("add", TRUE), AssertStmt("add", FALSE), AssertStmt("f", TRUE),
      AssertStmt("h", TRUE), AssertStmt("y", TRUE), RaiseStmt("KeyboardInterrupt"),
      Loop("none"), Loop("once"),
      Def("k", {"add"}), AssertStmt("k", TRUE) }   \* a test may define names too

SeqsUpTo(S, n) == UNION { [1..k -> S] : k \in 0..n }

TestLists == SeqsUpTo(TestSamples, MaxTests)

\* exec(generated_code, {}, local_vars): the globals of the code, and so of every
\* function it defines, are the anonymous dict {} (builtins aside).
ExecGlobals == {}

Names(bindings) == { b.name : b \in bindings }

\* A binding of local_vars. A function keeps the globals it was defined under:
\* "anon" (the {} of line 309) or "local_vars" (line 313).
Bind(bindings, name, kind, refs, scope) ==
    { b \in bindings : b.name # name }
        \cup { [name |-> name, kind |-> kind, refs |-> refs, scope |-> scope] }

\* The result of executing statement s with globals `globs` (names) and locals
\* `bindings`: "ok", "loop", or the exception raised.
StmtResult(s, globs, bindings) ==
    CASE s.op = "def" -> "ok"
      [] s.op = "assign" ->
            IF s.refs \subseteq (Names(bindings) \cup globs) THEN "ok" ELSE "NameError"
      [] s.op = "assert" ->
            IF s.name \notin (Names(bindings) \cup globs) THEN "NameError"
            ELSE LET b == CHOOSE x \in bindings : x.name = s.name
                     fglobs == IF b.scope = "anon" THEN ExecGlobals ELSE Names(bindings)
                 IN  IF b.kind = "func" /\ ~(b.refs \subseteq fglobs) THEN "NameError"
                     ELSE IF s.holds THEN "ok" ELSE "AssertionError"
      [] s.op = "raise" -> s.exn
      [] s.op = "loop" -> "loop"

StmtBindings(s, bindings, scope) ==
    CASE s.op = "def" -> Bind(bindings, s.name, "func", s.refs, scope)
      [] s.op = "assign" -> Bind(bindings, s.name, "value", {}, scope)
      [] OTHER -> bindings

NoCall ==
    /\ generated_code = <<>> /\ test_cases = <<>> /\ timeout = 0 /\ main_thread = TRUE
    /\ local_vars = {} /\ ip = 1 /\ ti = 1 /\ loop_phase = 0
    /\ exc = "none" /\ retval = "none" /\ outcome = "none" /\ fired = FALSE
    /\ started = <<>> /\ ok_units = {}

InitEval ==
    /\ pc = "caller" /\ NoCall
    /\ alarm = 0 /\ sig_handler = "default" /\ caller_hit = FALSE

InitClientIdle ==
    /\ cached_client = {} /\ client_args = {} /\ client_used = {}

InitNormIdle ==
    /\ n_in = <<>> /\ n_out = <<>> /\ n_out2 = <<>> /\ n_phase = 0

InitF1Idle ==
    /\ prediction = <<>> /\ ground_truth = <<>> /\ f1_fwd = <<>> /\ f1_swp = <<>>

\* An exception raised inside the try block (lines 303-316) reaches the except
\* clauses: AssertionError (318), Exception (321); any other propagates, through
\* the finally clause.
RaiseInTry(e) ==
    /\ exc' = e
    /\ pc' = IF e = "AssertionError" THEN "except_assert"
             ELSE IF e \in ExceptionClasses THEN "except_other"
             ELSE "finally"

\* The caller calls evaluate_code(generated_code, test_cases, timeout); line 297.
Call ==
    /\ pc = "caller"
    /\ \E c \in CodeSamples, t \in TestLists, s \in 0..MaxTimeout, m \in BOOLEAN :
          /\ generated_code' = c /\ test_cases' = t /\ timeout' = s /\ main_thread' = m
    /\ local_vars' = {}
    /\ pc' = "set_handler"
    /\ UNCHANGED <<alarm, sig_handler, ip, ti, loop_phase, exc, retval, outcome, fired,
                   started, ok_units, caller_hit>>
    /\ UNCHANGED <<clientVars, normVars, f1Vars>>

\* Line 305: signal.signal raises ValueError off the main thread.
SetHandler ==
    /\ pc = "set_handler"
    /\ IF main_thread
          THEN /\ sig_handler' = "timeout_handler" /\ pc' = "arm" /\ UNCHANGED exc
          ELSE /\ RaiseInTry("ValueError") /\ UNCHANGED sig_handler
    /\ UNCHANGED <<generated_code, test_cases, timeout, main_thread, alarm, local_vars, ip,
                   ti, loop_phase, retval, outcome, fired, started, ok_units, caller_hit>>
    /\ UNCHANGED <<clientVars, normVars, f1Vars>>

\* Line 306: signal.alarm(timeout); signal.alarm(0) arms nothing. Line 309's
\* exec starts next.
ArmAlarm ==
    /\ pc = "arm"
    /\ alarm' = timeout
    /\ pc' = "exec_code"
    /\ started' = Append(started, 0)
    /\ UNCHANGED <<generated_code, test_cases, timeout, main_thread, sig_handler, local_vars,
                   ip, ti, loop_phase, exc, retval, outcome, fired, ok_units, caller_hit>>
    /\ UNCHANGED <<clientVars, normVars, f1Vars>>

\* Line 309: exec(generated_code, {}, local_vars), one statement at a step.
ExecCode ==
    /\ pc = "exec_code"
    /\ IF ip > Len(generated_code)
          THEN /\ pc' = "for_tests" /\ ok_units' = ok_units \cup {0}
               /\ UNCHANGED <<local_vars, ip, loop_phase, exc>>
          ELSE LET s == generated_code[ip]
                   r == StmtResult(s, ExecGlobals, local_vars)
               IN  /\ UNCHANGED ok_units
                   /\ CASE r = "ok" ->
                             /\ local_vars' = StmtBindings(s, local_vars, "anon")
                             /\ ip' = ip + 1
                             /\ UNCHANGED <<pc, loop_phase, exc>>
                        [] r = "loop" ->
                             /\ loop_phase' = 1 - loop_phase
                             /\ UNCHANGED <<pc, local_vars, ip, exc>>
                        [] OTHER ->
                             /\ RaiseInTry(r)
                             /\ UNCHANGED <<local_vars, ip, loop_phase>>
    /\ UNCHANGED <<generated_code, test_cases, timeout, main_thread, alarm, sig_handler, ti,
                   retval, outcome, fired, started, caller_hit>>
    /\ UNCHANGED <<clientVars, normVars, f1Vars>>

\* Line 312: the for loop takes the next test, or ends.
ForTests ==
    /\ pc = "for_tests"
    /\ IF ti <= Len(test_cases)
          THEN /\ pc' = "exec_test" /\ started' = Append(started, ti)
          ELSE /\ pc' = "return_true" /\ UNCHANGED started
    /\ UNCHANGED <<generated_code, test_cases, timeout, main_thread, alarm, sig_handler,
                   local_vars, ip, ti, loop_phase, exc, retval, outcome, fired, ok_units,
                   caller_hit>>
    /\ UNCHANGED <<clientVars, normVars, f1Vars>>

\* ExecTest with the failure handled inside the loop: the for loop goes on to
\* the next test after a test raised.
ExecTestContinue ==
    /\ pc = "exec_test"
    /\ LET s == test_cases[ti]
           r == StmtResult(s, {}, local_vars)
       IN  CASE r = "ok" ->
                  /\ local_vars' = StmtBindings(s, local_vars, "local_vars")
                  /\ ok_units' = ok_units \cup {ti}
                  /\ ti' = ti + 1
                  /\ pc' = "for_tests"
                  /\ UNCHANGED <<loop_phase, exc>>
             [] r = "loop" ->
                  /\ loop_phase' = 1 - loop_phase
                  /\ UNCHANGED <<pc, local_vars, ti, ok_units, exc>>
             [] OTHER ->
                  /\ ti' = ti + 1
                  /\ pc' = "for_tests"
                  /\ UNCHANGED <<local_vars, ok_units, loop_phase, exc>>
    /\ UNCHANGED <<generated_code, test_cases, timeout, main_thread, alarm, sig_handler, ip,
                   retval, outcome, fired, started, caller_hit>>
    /\ UNCHANGED <<clientVars, normVars, f1Vars>>

\* Line 313: exec(test, local_vars): local_vars is the test's globals and locals.
ExecTest ==
    /\ pc = "exec_test"
    /\ LET s == test_cases[ti]
           r == StmtResult(s, {}, local_vars)
       IN  CASE r = "ok" ->
                  /\ local_vars' = StmtBindings(s, local_vars, "local_vars")
                  /\ ok_units' = ok_units \cup {ti}
                  /\ ti' = ti + 1
                  /\ pc' = "for_tests"
                  /\ UNCHANGED <<loop_phase, exc>>
             [] r = "loop" ->
                  /\ loop_phase' = 1 - loop_phase
                  /\ UNCHANGED <<pc, local_vars, ti, ok_units, exc>>
             [] OTHER ->
                  /\ RaiseInTry(r)
                  /\ UNCHANGED <<local_vars, ti, ok_units, loop_phase>>
    /\ UNCHANGED <<generated_code, test_cases, timeout, main_thread, alarm, sig_handler, ip,
                   retval, outcome, fired, started, caller_hit>>
    /\ UNCHANGED <<clientVars, normVars, f1Vars>>

\* Line 316: return True (the finally clause runs before the function returns).
ReturnTrue ==
    /\ pc = "return_true"
    /\ retval' = "True"
    /\ pc' = "finally"
    /\ UNCHANGED <<generated_code, test_cases, timeout, main_thread, alarm, sig_handler,
                   local_vars, ip, ti, loop_phase, exc, outcome, fired, started, ok_units,
                   caller_hit>>
    /\ UNCHANGED <<clientVars, normVars, f1Vars>>

\* Lines 318-320: except AssertionError: return False.
ExceptAssertion ==
    /\ pc = "except_assert"
    /\ retval' = "False"
    /\ exc' = "none"
    /\ pc' = "finally"
    /\ UNCHANGED <<generated_code, test_cases, timeout, main_thread, alarm, sig_handler,
                   local_vars, ip, ti, loop_phase, outcome, fired, started, ok_units,
                   caller_hit>>
    /\ UNCHANGED <<clientVars, normVars, f1Vars>>

\* Lines 321-323: except Exception as e: print(...).
ExceptOther ==
    /\ pc = "except_other"
    /\ pc' = "return_false"
    /\ UNCHANGED <<generated_code, test_cases, timeout, main_thread, alarm, sig_handler,
                   local_vars, ip, ti, loop_phase, exc, retval, outcome, fired, started,
                   ok_units, caller_hit>>
    /\ UNCHANGED <<clientVars, normVars, f1Vars>>

\* Line 324: return False.
ReturnFalse ==
    /\ pc = "return_false"
    /\ retval' = "False"
    /\ exc' = "none"
    /\ pc' = "finally"
    /\ UNCHANGED <<generated_code, test_cases, timeout, main_thread, alarm, sig_handler,
                   local_vars, ip, ti, loop_phase, outcome, fired, started, ok_units,
                   caller_hit>>
    /\ UNCHANGED <<clientVars, normVars, f1Vars>>

\* FinallyDisarm without the signal.alarm(0).
FinallyNoDisarm ==
    /\ pc = "finally"
    /\ outcome' = IF exc # "none" THEN exc ELSE retval
    /\ pc' = "returned"
    /\ UNCHANGED <<generated_code, test_cases, timeout, main_thread, sig_handler, local_vars,
                   ip, ti, loop_phase, exc, retval, fired, started, ok_units, caller_hit,
                   alarm>>
    /\ UNCHANGED <<clientVars, normVars, f1Vars>>

\* Lines 325-327: signal.alarm(0), then the pending return or exception takes effect.
FinallyDisarm ==
    /\ pc = "finally"
    /\ alarm' = 0
    /\ outcome' = IF exc # "none" THEN exc ELSE retval
    /\ pc' = "returned"
    /\ UNCHANGED <<generated_code, test_cases, timeout, main_thread, sig_handler, local_vars,
                   ip, ti, loop_phase, exc, retval, fired, started, ok_units, caller_hit>>
    /\ UNCHANGED <<clientVars, normVars, f1Vars>>

\* The caller has the call's result (or its exception) and goes on.
CallerContinues ==
    /\ pc = "returned"
    /\ pc' = "caller"
    /\ generated_code' = <<>> /\ test_cases' = <<>> /\ timeout' = 0 /\ main_thread' = TRUE
    /\ local_vars' = {} /\ ip' = 1 /\ ti' = 1 /\ loop_phase' = 0
    /\ exc' = "none" /\ retval' = "none" /\ outcome' = "none" /\ fired' = FALSE
    /\ started' = <<>> /\ ok_units' = {}
    /\ UNCHANGED <<alarm, sig_handler, caller_hit>>
    /\ UNCHANGED <<clientVars, normVars, f1Vars>>

\* The statement the interpreter is executing inside exec, if any.
Running ==
    IF pc = "exec_code" /\ ip <= Len(generated_code) THEN generated_code[ip]
    ELSE IF pc = "exec_test" THEN test_cases[ti]
    ELSE Loop("none")

InLoop == pc \in {"exec_code", "exec_test"} /\ Running.op = "loop"

\* Lines 300-301: SIGALRM runs timeout_handler, which raises TimeoutError in
\* whatever frame is executing.
timeout_handler ==
    /\ fired' = TRUE
    /\ CASE pc \in {"caller", "returned"} ->
              \* the caller's own code is interrupted
              /\ caller_hit' = TRUE
              /\ UNCHANGED <<pc, exc, retval, outcome, ip, ti, ok_units>>
         [] InLoop /\ Running.catch = "always" ->
              \* swallowed by the try/except inside the loop, which goes on
              UNCHANGED <<pc, exc, retval, outcome, ip, ti, ok_units, caller_hit>>
         [] InLoop /\ Running.catch = "once" ->
              \* swallowed by the try/except around the loop: the statement ends
              /\ IF pc = "exec_code"
                    THEN /\ ip' = ip + 1 /\ UNCHANGED <<pc, ti, ok_units>>
                    ELSE /\ ok_units' = ok_units \cup {ti} /\ ti' = ti + 1
                         /\ pc' = "for_tests" /\ UNCHANGED ip
              /\ UNCHANGED <<exc, retval, outcome, caller_hit>>
         [] pc \in {"set_handler", "arm", "exec_code", "for_tests", "exec_test",
                    "return_true"}
               /\ ~(InLoop /\ Running.catch # "none") ->
              \* raised inside the try block
              /\ RaiseInTry("TimeoutError")
              /\ UNCHANGED <<retval, outcome, ip, ti, ok_units, caller_hit>>
         [] pc \in {"except_assert", "except_other", "return_false"} ->
              \* raised inside an except clause: it propagates, through finally
              /\ exc' = "TimeoutError"
              /\ pc' = "finally"
              /\ UNCHANGED <<retval, outcome, ip, ti, ok_units, caller_hit>>
         [] pc = "finally" ->
              \* raised inside the finally clause, before signal.alarm(0)
              /\ exc' = "TimeoutError"
              /\ outcome' = "TimeoutError"
              /\ pc' = "returned"
              /\ UNCHANGED <<retval, ip, ti, ok_units, caller_hit>>

\* A second passes. When the pending alarm expires the kernel delivers SIGALRM.
Tick ==
    /\ alarm > 0
    /\ alarm' = alarm - 1
    /\ IF alarm = 1 /\ sig_handler = "timeout_handler"
          THEN timeout_handler
          ELSE UNCHANGED <<pc, exc, retval, outcome, ip, ti, ok_units, caller_hit, fired>>
    /\ UNCHANGED <<generated_code, test_cases, timeout, main_thread, sig_handler, local_vars,
                   loop_phase, started>>
    /\ UNCHANGED <<clientVars, normVars, f1Vars>>

NextEval ==
    \/ Call
    \/ SetHandler \/ ArmAlarm \/ ExecCode \/ ForTests \/ ExecTest \/ ReturnTrue
    \/ ExceptAssertion \/ ExceptOther \/ ReturnFalse \/ FinallyDisarm
    \/ Tick
    \/ CallerContinues

Init == InitEval /\ InitClientIdle /\ InitNormIdle /\ InitF1Idle

Next == NextEval

Spec == Init /\ [][Next]_vars

\* The interpreter keeps executing and time keeps passing; the caller is free
\* never to call again.
FairSpec ==
    /\ Init /\ [][Next]_vars
    /\ WF_vars(SetHandler) /\ WF_vars(ArmAlarm) /\ WF_vars(ExecCode) /\ WF_vars(ForTests)
    /\ WF_vars(ExecTest) /\ WF_vars(ReturnTrue) /\ WF_vars(ExceptAssertion)
    /\ WF_vars(ExceptOther) /\ WF_vars(ReturnFalse) /\ WF_vars(FinallyDisarm)
    /\ WF_vars(Tick)

(***************************************************************************)
(* The completion client.                                                  *)
(***************************************************************************)
DefaultMaxRetries == 2
DefaultTimeout == 300

BaseUrls == {"", "https://a.example/v1", "https://b.example/v1"}
ApiKeys == {"", "key-1"}
RetryCounts == {DefaultMaxRetries, 0}
Timeouts == {DefaultTimeout, 30}

\* OpenAI(base_url=..., api_key=..., timeout=..., max_retries=...): a client is
\* what it was constructed with.
OpenAI(base_url, api_key, client_timeout, max_retries) ==
    [base_url |-> base_url, api_key |-> api_key, timeout |-> client_timeout,
     max_retries |-> max_retries]

\* Lines 341-349, on the value `cached` of _cached_client ({}: None): the new
\* value of _cached_client, a one-element set holding the client returned.
get_client(cached, base_url, api_key, max_retries, client_timeout) ==
    IF cached = {} THEN { OpenAI(base_url, api_key, client_timeout, max_retries) }
    ELSE cached

\* A caller calls get_client with connection parameters of its choice.
GetClient ==
    /\ \E b \in BaseUrls, k \in ApiKeys, r \in RetryCounts, t \in Timeouts :
          /\ cached_client' = get_client(cached_client, b, k, r, t)
          /\ client_args' = { OpenAI(b, k, t, r) }
    /\ client_used' = cached_client'
    /\ UNCHANGED <<evalVars, normVars, f1Vars>>

\* Line 377: model_prompting passes its base_url and api_key on; max_retries
\* and timeout take get_client's defaults.
model_prompting ==
    /\ \E b \in BaseUrls, k \in ApiKeys :
          /\ cached_client' =
                get_client(cached_client, b, k, DefaultMaxRetries, DefaultTimeout)
          /\ client_args' = { OpenAI(b, k, DefaultTimeout, DefaultMaxRetries) }
    /\ client_used' = cached_client'
    /\ UNCHANGED <<evalVars, normVars, f1Vars>>

NextClient == GetClient \/ model_prompting

SpecClient == Init /\ [][NextClient]_vars

\* C5: the client a call uses is configured with the base_url, api_key,
\* max_retries and timeout passed to that same call, whatever earlier calls passed.
C5_ClientConfiguredPerCall == client_used = client_args

(***************************************************************************)
(* Text normalization (standard mode).                                     *)
(***************************************************************************)
LowerLetters ==
    <<"a", "b", "c", "d", "e", "f", "g", "h", "i", "j", "k", "l", "m", "n",
       "o", "p", "q", "r", "s", "t", "u", "v", "w", "x", "y", "z">>
UpperLetters ==
    <<"A", "B", "C", "D", "E", "F", "G", "H", "I", "J", "K", "L", "M", "N",
       "O", "P", "Q", "R", "S", "T", "U", "V", "W", "X", "Y", "Z">>
Digits == {"0", "1", "2", "3", "4", "5", "6", "7", "8", "9"}
\* string.punctuation (its backquote apart, which no string of a module can hold;
\* no input of the model holds one)
Punctuation ==
    { "!", "\"", "#", "$", "%", "&", "'", "(", ")", "*", "+", ",", "-", ".", "/",
      ":", ";", "<", "=", ">", "?", "@", "[", "\\", "]", "^", "_", "{", "|",
      "}", "~" }
\* what str.split() splits on
Whitespace == {" ", "\t", "\n", "\r"}

Range(f) == { f[i] : i \in DOMAIN f }

\* \w of the re module
WordChars == Range(LowerLetters) \cup Range(UpperLetters) \cup Digits \cup {"_"}

IsWord(c) == c \in WordChars

\* the lower-case letter of each upper-case letter
LowerOf ==
    [c \in Range(UpperLetters) |->
        LowerLetters[CHOOSE j \in 1..Len(UpperLetters) : UpperLetters[j] = c]]

Flatten(ss) ==
    LET RECURSIVE F(_)
        F(i) == IF i > Len(ss) THEN <<>> ELSE ss[i] \o F(i + 1)
    IN  F(1)

\* Line 104: text.lower()
lower(text) ==
    [i \in 1..Len(text) |-> IF text[i] \in DOMAIN LowerOf THEN LowerOf[text[i]] ELSE text[i]]

\* Lines 100-101: the characters that are not in string.punctuation
remove_punc(text) == SelectSeq(text, LAMBDA ch : ch \notin Punctuation)

\* \b at the gap before text[p] (p in 1..Len+1): exactly one side is a word character
WordBoundary(text, p) ==
    LET before == p > 1 /\ IsWord(text[p - 1])
        after == p <= Len(text) /\ IsWord(text[p])
    IN  before # after

Articles == << <<"a">>, <<"a", "n">>, <<"t", "h", "e">> >>

\* whether \b(alt)\b matches at position i
ArticleAt(text, i, alt) ==
    /\ i + Len(alt) - 1 <= Len(text)
    /\ SubSeq(text, i, i + Len(alt) - 1) = alt
    /\ WordBoundary(text, i)
    /\ WordBoundary(text, i + Len(alt))

\* Line 94: re.sub(r'\b(a|an|the)\b', ' ', text): leftmost matches, the
\* alternatives tried in order, each match replaced by one space
remove_articles(text) ==
    LET RECURSIVE Sub(_)
        Sub(i) ==
            IF i > Len(text) THEN <<>>
            ELSE IF \E k \in 1..Len(Articles) : ArticleAt(text, i, Articles[k])
                 THEN LET k == CHOOSE k \in 1..Len(Articles) :
                                  /\ ArticleAt(text, i, Articles[k])
                                  /\ \A m \in 1..(k - 1) : ~ArticleAt(text, i, Articles[m])
                      IN  <<" ">> \o Sub(i + Len(Articles[k]))
                 ELSE <<text[i]>> \o Sub(i + 1)
    IN  Sub(1)

\* text.split(): the maximal runs of non-whitespace characters
split(text) ==
    LET RECURSIVE S(_, _)
        S(i, cur) ==
            IF i > Len(text) THEN (IF cur = <<>> THEN <<>> ELSE <<cur>>)
            ELSE IF text[i] \in Whitespace
                 THEN (IF cur = <<>> THEN <<>> ELSE <<cur>>) \o S(i + 1, <<>>)
                 ELSE S(i + 1, Append(cur, text[i]))
    IN  S(1, <<>>)

\* ' '.join(tokens)
join(tokens) ==
    LET RECURSIVE J(_)
        J(i) == IF i > Len(tokens) THEN <<>>
                ELSE IF i = 1 THEN tokens[1] \o J(2)
                ELSE <<" ">> \o tokens[i] \o J(i + 1)
    IN  J(1)

\* Line 97
white_space_fix(text) == join(split(text))

\* normalize_answer with the articles removed before the punctuation
normalize_answer_articles_first(s) ==
    white_space_fix(remove_punc(remove_articles(lower(s))))

\* Line 114 (normal_method = "")
normalize_answer(s) == white_space_fix(remove_articles(remove_punc(lower(s))))

NormPieces ==
    { <<"a">>, <<"a", "n">>, <<"t", "h", "e">>, <<"T", "h", "e">>, <<"A">>, <<"n">>,
      <<"X", ".">>, <<" ">>, <<"\t">>, <<".">>, <<"_">> }

NormInputs == { Flatten(ps) : ps \in SeqsUpTo(NormPieces, MaxPieces) }

InitNorm ==
    /\ InitEval /\ InitClientIdle /\ InitF1Idle
    /\ n_in \in NormInputs /\ n_out = <<>> /\ n_out2 = <<>> /\ n_phase = 0

Normalize ==
    /\ n_phase = 0
    /\ n_out' = normalize_answer(n_in)
    /\ n_phase' = 1
    /\ UNCHANGED <<n_in, n_out2, evalVars, clientVars, f1Vars>>

NormalizeAgain ==
    /\ n_phase = 1
    /\ n_out2' = normalize_answer(n_out)
    /\ n_phase' = 2
    /\ UNCHANGED <<n_in, n_out, evalVars, clientVars, f1Vars>>

NextNorm == Normalize \/ NormalizeAgain

SpecNorm == InitNorm /\ [][NextNorm]_vars

\* C6: normalizing a normalized string changes nothing:
\* normalize_answer(normalize_answer(s)) = normalize_answer(s).
C6_NormalizeIdempotent == n_phase = 2 => n_out2 = n_out

\* C6's case: "The X." lost its case, its punctuation and its article, and the
\* result was normalized a second time.
C6_Witness ==
    /\ n_phase = 2
    /\ n_in = <<"T", "h", "e", " ", "X", ".">>
    /\ n_out = <<"x">>

(***************************************************************************)
(* Token F1.  A float is modelled by the exact fraction it approximates,   *)
(* in lowest terms; a division by zero yields DivisionByZero.              *)
(***************************************************************************)
GCD(a, b) ==
    LET RECURSIVE G(_, _)
        G(x, y) == IF y = 0 THEN x ELSE G(y, x % y)
    IN  G(a, b)

\* ZeroDivisionError, which every later operation passes on
DivisionByZero == [num |-> 0, den |-> 0]

Frac(n, d) ==
    IF d = 0 THEN DivisionByZero
    ELSE LET g == GCD(n, d) IN [num |-> n \div g, den |-> d \div g]

RatMul(x, y) == Frac(x.num * y.num, x.den * y.den)
RatAdd(x, y) == Frac(x.num * y.den + y.num * x.den, x.den * y.den)
RatDiv(x, y) == IF y.num = 0 THEN DivisionByZero ELSE Frac(x.num * y.den, x.den * y.num)

\* Line 131
ZERO_METRIC == <<Frac(0, 1), Frac(0, 1), Frac(0, 1)>>

\* ['yes', 'no', 'noanswer'] of lines 133 and 135
BinaryAnswers ==
    { <<"y", "e", "s">>, <<"n", "o">>, <<"n", "o", "a", "n", "s", "w", "e", "r">> }

\* Counter(tokens): each token's number of occurrences
Counter(tokens) ==
    [t \in Range(tokens) |-> Cardinality({ i \in 1..Len(tokens) : tokens[i] = t })]

\* c1 | c2 of two Counters: the larger count of each key
CounterOr(c1, c2) ==
    [t \in DOMAIN c1 \cup DOMAIN c2 |->
        LET n1 == IF t \in DOMAIN c1 THEN c1[t] ELSE 0
            n2 == IF t \in DOMAIN c2 THEN c2[t] ELSE 0
        IN  IF n1 > n2 THEN n1 ELSE n2]

\* Line 140: c1 & c2 of two Counters: the smaller count of each common key
CounterAnd(c1, c2) ==
    [t \in DOMAIN c1 \cap DOMAIN c2 |-> IF c1[t] < c2[t] THEN c1[t] ELSE c2[t]]

\* Line 141: sum(common.values())
SumValues(c) ==
    LET RECURSIVE Sum(_)
        Sum(keys) == IF keys = {} THEN 0
                     ELSE LET k == CHOOSE k \in keys : TRUE IN c[k] + Sum(keys \ {k})
    IN  Sum(DOMAIN c)

\* (2 * precision * recall) / (precision + precision)
F1OverTwicePrecision(precision, recall) ==
    RatDiv(RatMul(RatMul(Frac(2, 1), precision), recall), RatAdd(precision, precision))

\* Line 148: (2 * precision * recall) / (precision + recall)
F1Of(precision, recall) ==
    RatDiv(RatMul(RatMul(Frac(2, 1), precision), recall), RatAdd(precision, recall))

\* Lines 128-150: (f1, precision, recall)
f1_score(pred, truth) ==
    LET normalized_prediction == normalize_answer(pred)
        normalized_ground_truth == normalize_answer(truth)
        prediction_tokens == split(normalized_prediction)
        ground_truth_tokens == split(normalized_ground_truth)
        common == CounterAnd(Counter(prediction_tokens), Counter(ground_truth_tokens))
        num_same == SumValues(common)
        precision == RatDiv(Frac(num_same, 1), Frac(Len(prediction_tokens), 1))
        recall == RatDiv(Frac(num_same, 1), Frac(Len(ground_truth_tokens), 1))
    IN  IF /\ normalized_prediction \in BinaryAnswers
           /\ normalized_prediction # normalized_ground_truth
           THEN ZERO_METRIC
        ELSE IF /\ normalized_ground_truth \in BinaryAnswers
                /\ normalized_prediction # normalized_ground_truth
           THEN ZERO_METRIC
        ELSE IF num_same = 0 THEN ZERO_METRIC
        ELSE <<F1Of(precision, recall), precision, recall>>

F1Pieces ==
    { <<"y", "e", "s">>, <<"n", "o">>, <<"a", "n", "s", "w", "e", "r">>,
      <<"T", "h", "e", " ">>, <<"D", "o", "g", ".", " ">> }

F1Inputs == { Flatten(ps) : ps \in SeqsUpTo(F1Pieces, MaxF1Pieces) }

InitF1 ==
    /\ InitEval /\ InitClientIdle /\ InitNormIdle
    /\ prediction \in F1Inputs /\ ground_truth \in F1Inputs
    /\ f1_fwd = <<>> /\ f1_swp = <<>>

\* f1_score(prediction, ground_truth)
Score ==
    /\ f1_fwd = <<>>
    /\ f1_fwd' = f1_score(prediction, ground_truth)
    /\ UNCHANGED <<prediction, ground_truth, f1_swp, evalVars, clientVars, normVars>>

\* f1_score(ground_truth, prediction)
ScoreSwapped ==
    /\ f1_swp = <<>>
    /\ f1_swp' = f1_score(ground_truth, prediction)
    /\ UNCHANGED <<prediction, ground_truth, f1_fwd, evalVars, clientVars, normVars>>

NextF1 == Score \/ ScoreSwapped

SpecF1 == InitF1 /\ [][NextF1]_vars

\* The multiset intersection of two token sequences, as bags: A - (A - B).
SeqToBag(tokens) ==
    LET RECURSIVE B(_)
        B(i) == IF i > Len(tokens) THEN EmptyBag ELSE SetToBag({tokens[i]}) (+) B(i + 1)
    IN  B(1)

NumSameRef(a, b) == BagCardinality(SeqToBag(a) (-) (SeqToBag(a) (-) SeqToBag(b)))

InUnit(x) == x.den > 0 /\ 0 <= x.num /\ x.num <= x.den

\* C7: f1_score is the reference definition: (0,0,0) when either normalized
\* string is yes, no or noanswer and the two differ, and when the token
\* multisets share nothing; else precision = num_same/|prediction tokens|,
\* recall = num_same/|ground-truth tokens| and f1 = 2*precision*recall /
\* (precision + recall) (which is 2*num_same/(|prediction tokens| + |ground-truth
\* tokens|)); no division by zero, and every component within [0,1].
C7_F1MatchesReference ==
    f1_fwd # <<>> =>
        LET np == normalize_answer(prediction)
            ng == normalize_answer(ground_truth)
            pt == split(np)
            gt == split(ng)
            ns == NumSameRef(pt, gt)
        IN  /\ \A i \in 1..3 : InUnit(f1_fwd[i])
            /\ IF (np \in BinaryAnswers \/ ng \in BinaryAnswers) /\ np # ng
                  THEN f1_fwd = ZERO_METRIC
               ELSE IF ns = 0 THEN f1_fwd = ZERO_METRIC
               ELSE /\ f1_fwd[2].num * Len(pt) = ns * f1_fwd[2].den
                    /\ f1_fwd[3].num * Len(gt) = ns * f1_fwd[3].den
                    /\ f1_fwd[1].num * (Len(pt) + Len(gt)) = 2 * ns * f1_fwd[1].den

\* C7's case: a two-token prediction scored against a ground truth that shares
\* one of the tokens: precision 1/2, recall 1, f1 2/3.
C7_Witness ==
    /\ f1_fwd = <<Frac(2, 3), Frac(1, 2), Frac(1, 1)>>
    /\ Len(split(normalize_answer(prediction))) = 2

NotBinary(s) == normalize_answer(s) \notin BinaryAnswers

\* C8: for strings whose normalized forms are not yes, no or noanswer the f1
\* component is the same in both argument orders, precision and recall swap.
C8_F1Symmetric ==
    (f1_fwd # <<>> /\ f1_swp # <<>> /\ NotBinary(prediction) /\ NotBinary(ground_truth))
        => /\ f1_fwd[1] = f1_swp[1]
           /\ f1_fwd[2] = f1_swp[3]
           /\ f1_fwd[3] = f1_swp[2]

\* C8's case: both orders scored, with precision and recall different.
C8_Witness ==
    /\ f1_fwd # <<>> /\ f1_swp # <<>>
    /\ NotBinary(prediction) /\ NotBinary(ground_truth)
    /\ f1_fwd[1].num > 0 /\ f1_fwd[2] # f1_fwd[3]

(***************************************************************************)
(* The claims about evaluate_code.                                         *)
(***************************************************************************)
AllTestsOk == \A i \in 1..Len(test_cases) : i \in ok_units

\* C1: every call of evaluate_code ends by returning a boolean; no exception
\* raised by the code, by a test or by the timeout handler reaches the caller.
C1_NoFaultEscapes == pc = "returned" => outcome \in {"True", "False"}

\* C2: every invocation of evaluate_code eventually returns (the deadline
\* aborts whatever is executing), for every code and every timeout value.
C2_EveryCallReturns == (pc = "set_handler") ~> (pc = "returned")

\* C3: evaluate_code returns true only if the code and every test executed
\* without raising; if the code raises, a test raises or the deadline fires, the
\* returned verdict is false.
C3_TrueOnlyIfAllPassedInTime ==
    (pc = "returned" /\ outcome = "True") => (0 \in ok_units /\ AllTestsOk /\ ~fired)

\* C4: on every path by which evaluate_code ends the alarm it armed is disarmed
\* before control is back in the caller: no alarm is pending there, and none
\* fires in the caller's own code.
C4_AlarmDisarmedOnReturn == (pc \in {"returned", "caller"} => alarm = 0) /\ ~caller_hit

\* C4's case: a call that armed an alarm returned true with the deadline not
\* yet reached.
C4_Witness ==
    /\ pc = "returned" /\ outcome = "True" /\ timeout > 0 /\ ~fired /\ Len(test_cases) > 0

\* The code string is correct on its own terms: only definitions, every name a
\* function body or a value refers to is defined at top level by the same code.
DefinedByCode == { generated_code[i].name : i \in 1..Len(generated_code) }

CorrectCode ==
    /\ Len(generated_code) > 0
    /\ \A i \in 1..Len(generated_code) :
          /\ generated_code[i].op \in {"def", "assign"}
          /\ generated_code[i].refs \subseteq DefinedByCode

\* Every test asserts, about a name the code defines, something that holds.
HoldingTests ==
    \A i \in 1..Len(test_cases) :
        /\ test_cases[i].op = "assert" /\ test_cases[i].holds
        /\ test_cases[i].name \in DefinedByCode

\* C9: every name the code defines at top level resolves while a test runs,
\* also from the body of a function the code defines, so correct code whose
\* assertions hold yields true (on the main thread, the deadline not reached).
C9_CorrectCodeYieldsTrue ==
    (pc = "returned" /\ CorrectCode /\ HoldingTests /\ main_thread /\ ~fired)
        => outcome = "True"

\* C10: exec runs the code first and then the tests in list order, one at a
\* time; a unit starts only after every earlier unit finished without raising,
\* so nothing is executed after the first unit that raises.
C10_SequentialUntilFirstRaise ==
    /\ \A j \in 1..Len(started) : started[j] = j - 1
    /\ \A j \in 1..(Len(started) - 1) : started[j] \in ok_units

\* C10's case: the first of several tests raised and the call ended without
\* starting the second.
C10_Witness ==
    /\ pc = "returned" /\ Len(test_cases) >= 2
    /\ started = <<0, 1>> /\ 1 \notin ok_units /\ 0 \in ok_units /\ outcome = "False"

====
